---- MODULE Spec2Model ----
(***************************************************************************)
(* Model of the outreach pipeline of ColdEmailGenerator: the class         *)
(* OutreachGenerator of src/main2.py (delimiter prompt, lead search) and   *)
(* of src/main3.py (JSON prompt, no lead search).                          *)
(*                                                                         *)
(* Text is a sequence of one-character strings, so that strip(), replace() *)
(* and split() act on it as Python's do.  A longer string inside a         *)
(* sequence ("Acme", "No summary extracted") is a word: a fixed run of     *)
(* characters that holds no '|', no line break, and no white space at its  *)
(* ends, which none of these operations can cut.                           *)
(***************************************************************************)
EXTENDS Integers, Sequences, FiniteSets, TLC

VARIABLES
    variant,          \* "main2" or "main3": the entry point that is running
    nrows,            \* len(df)
    index,            \* the loop variable of process_excel_file (0-based)
    row,              \* the row being processed
    pc,               \* position of the single thread of control
    lead_info,        \* process_row's local
    company_info,     \* process_row's local
    result,           \* what process_row returned
    tries,            \* backoff's count of attempts of the call in progress
    df,               \* the four result columns of the DataFrame, by row index
    output_file,      \* the output workbook
    successful_rows,
    failed_rows,
    company_cache,    \* self.company_cache: a dict, as its items in insertion order
    cache_file,       \* company_cache.txt
    backup_file,      \* company_cache.backup.txt
    saved_cache,      \* history: self.company_cache as save_company_cache last saw it
    attempts,         \* history: the attempts of the last retried call of this row
    gave_up_on_time,  \* history: backoff's max_time ended the last retried call
    fetch_calls,      \* history: crawler.arun calls made for this row
    gen_calls,        \* history: ChatCompletion.create calls made for this row
    was_cached,       \* history: the row's Company Name was a cache key when the row began
    raised,           \* history: the exception process_row caught for this row
    excel_writes,     \* history: the rows after which df.to_excel was called (0: after the loop)
    now,              \* time.time(), in ticks
    last_api_call,    \* self.last_api_call
    last_call_end,    \* history: when the last rate-limited API call returned or raised
    message_content,  \* response.choices[0].message.content, handed to the parser
    reply,            \* history: what message_content was put together from
    schema_file,      \* extraction_schema.json
    company_website,  \* the argument of main.py's scrape_url
    strategy,         \* history: the extraction strategy the last scrape used
    extracted,        \* history: result.extracted_content of the last scrape
    sleeps,           \* history: the rows after which asyncio.sleep(1) ran
    fireworks_api_key, \* self.fireworks_api_key: os.getenv("FIREWORKS_API_KEY")
    completed_saves,  \* history: the texts that saves which ran to their end left in company_cache.txt
                      \* (followed where save_company_cache is taken step by step)
    summarised        \* history: the Company Names whose scrape in this run was written to the cache

cache_vars == <<company_cache, cache_file, backup_file, saved_cache>>
row_vars == <<row, lead_info, company_info, result, tries>>
batch_vars == <<nrows, index, df, output_file, successful_rows, failed_rows>>
hist_vars == <<attempts, gave_up_on_time, fetch_calls, gen_calls, was_cached, raised, excel_writes>>
clock_vars == <<now, last_api_call, last_call_end>>
parse_vars == <<message_content, reply>>
extract_vars == <<schema_file, company_website, strategy, extracted>>
side_vars ==
    <<clock_vars, parse_vars, extract_vars, sleeps, fireworks_api_key, completed_saves,
      summarised>>
vars == <<variant, pc, cache_vars, row_vars, batch_vars, hist_vars, side_vars>>

----------------------------------------------------------------------------
(* Python's str operations, on sequences of characters.                    *)

\* The separator of the cache file, '|||'.
Sep == <<"|", "|", "|">>

\* The characters str.strip() removes that the model's texts can hold.
Whitespace == {" ", "\n", "\t"}

\* The empty cell of the spreadsheet: pandas yields float('nan'), which has
\* no str methods and is truthy.
NaN == <<"<float nan>">>

RECURSIVE lstrip(_)
lstrip(s) == IF s # <<>> /\ Head(s) \in Whitespace THEN lstrip(Tail(s)) ELSE s

RECURSIVE rstrip(_)
rstrip(s) ==
    IF s # <<>> /\ s[Len(s)] \in Whitespace
    THEN rstrip(SubSeq(s, 1, Len(s) - 1))
    ELSE s

\* str.strip()
strip(s) == rstrip(lstrip(s))

\* str.startswith(p)
startswith(s, p) == Len(s) >= Len(p) /\ SubSeq(s, 1, Len(p)) = p

\* p in s
contains(s, p) ==
    \E i \in 1..(Len(s) - Len(p) + 1) : SubSeq(s, i, i + Len(p) - 1) = p

\* s.replace('|||', ''): the occurrences found scanning from the left, none
\* overlapping another.
RECURSIVE replace_sep(_)
replace_sep(s) ==
    IF s = <<>> THEN <<>>
    ELSE IF startswith(s, Sep) THEN replace_sep(SubSeq(s, Len(Sep) + 1, Len(s)))
    ELSE <<Head(s)>> \o replace_sep(Tail(s))

\* s.split('|||', 1) of a text that holds the separator: the text before its
\* first occurrence and the text after it.
split_sep(s) ==
    LET i == CHOOSE i \in 1..(Len(s) - 2) :
                 /\ SubSeq(s, i, i + 2) = Sep
                 /\ \A j \in 1..(i - 1) : SubSeq(s, j, j + 2) # Sep
    IN  <<SubSeq(s, 1, i - 1), SubSeq(s, i + 3, Len(s))>>

\* The lines a text file yields when iterated: each up to and including its
\* line break, the last one possibly without.
RECURSIVE lines(_)
lines(text) ==
    IF text = <<>> THEN <<>>
    ELSE IF \E i \in 1..Len(text) : text[i] = "\n"
         THEN LET i == CHOOSE i \in 1..Len(text) :
                           text[i] = "\n" /\ \A j \in 1..(i - 1) : text[j] # "\n"
              IN  <<SubSeq(text, 1, i)>> \o lines(SubSeq(text, i + 1, Len(text)))
         ELSE <<text>>

----------------------------------------------------------------------------
(* A dict, as the sequence of its <<key, value>> items in insertion order.  *)

dict_has(d, k) == \E i \in 1..Len(d) : d[i][1] = k

dict_get(d, k) == d[CHOOSE i \in 1..Len(d) : d[i][1] = k][2]

\* A faulty version of dict_set: the items before are lost.
dict_set_alone(d, k, v) == <<<<k, v>>>>

\* d[k] = v: a present key keeps its place, a new one is appended.
dict_set(d, k, v) ==
    IF dict_has(d, k)
    THEN [i \in 1..Len(d) |-> IF d[i][1] = k THEN <<k, v>> ELSE d[i]]
    ELSE Append(d, <<k, v>>)

\* The dict as a set of <<key, value>> pairs.
items(d) == {d[i] : i \in 1..Len(d)}

----------------------------------------------------------------------------
(* The cache file.                                                         *)

\* A file: absent, or present with its text.
NoFile == [exists |-> FALSE, text |-> <<>>]

File(text) == [exists |-> TRUE, text |-> text]

\* load_company_cache: the lines that hold the separator, split at its first
\* occurrence, both parts stripped; a later line of the same key wins.
RECURSIVE load_lines(_, _)
load_lines(ls, cache) ==
    IF ls = <<>> THEN cache
    ELSE LET line == Head(ls)
             parts == split_sep(strip(line))
         IN  IF contains(line, Sep)
             THEN load_lines(Tail(ls), dict_set(cache, strip(parts[1]), strip(parts[2])))
             ELSE load_lines(Tail(ls), cache)

load_company_cache(file) ==
    IF file.exists THEN load_lines(lines(file.text), <<>>) ELSE <<>>

\* The line save_company_cache writes for one item.
cache_line(item) ==
    strip(replace_sep(item[1])) \o Sep \o strip(replace_sep(item[2])) \o <<"\n">>

\* The text save_company_cache leaves in company_cache.txt: the items' lines
\* in order, up to the first item that is not a str (its .replace raises
\* AttributeError, which the method's except clause logs: the file, opened
\* for writing, keeps the lines written before it).
RECURSIVE saved_text(_)
saved_text(d) ==
    IF d = <<>> \/ Head(d)[1] = NaN \/ Head(d)[2] = NaN THEN <<>>
    ELSE cache_line(Head(d)) \o saved_text(Tail(d))

\* save_company_cache: the present file is copied to the backup, then
\* rewritten.
save_company_cache(cache) ==
    /\ backup_file' = IF cache_file.exists THEN cache_file ELSE backup_file
    /\ cache_file' = File(saved_text(cache))
    /\ saved_cache' = cache

----------------------------------------------------------------------------
(* The texts of the pipeline.                                              *)

\* A missing key of a decoded JSON object, and a JSON value that is not a
\* string (a number, null).
Absent == <<"<absent>">>
NotStr == <<"<not a str>">>

\* No value: a local that is not bound, an exception that was not raised.
None == <<"<None>">>

\* Company summaries.
S_Widgets == <<"Builds widgets.">>
S_TwoLines == <<"Makes tools.", "\n", "Hiring engineers.">>

\* The sentinels of the code.
NoSummaryExtracted == <<"No summary extracted">>
FailedToParseExtraction == <<"Failed to parse extraction result">>
NoLinkedInProfile == <<"No LinkedIn profile found.">>
NoInformationFound == <<"No information found.">>
NoContentAvailable == <<"No content available">>
NoCompanyInfoAvailable == <<"No company info available">>
FailedLinkedIn == <<"Failed to parse LinkedIn request">>
FailedEmail == <<"Failed to parse email">>
FailedJson == <<"Failed to parse JSON response">>

\* The characters and tokens of a JSON text.
Quote == "\""

\* A JSON string literal: the quotes, and between them the characters, a
\* line break written as the escape \n.
json_string(chars) ==
    <<Quote>> \o [i \in 1..Len(chars) |-> IF chars[i] = "\n" THEN "\\n" ELSE chars[i]]
    \o <<Quote>>

\* "key": value
json_member(key, value) == json_string(<<key>>) \o <<":", " ">> \o value

\* The contents an extraction can return (result.extracted_content).
X_Summary == <<"{">> \o json_member("summary", json_string(S_Widgets)) \o <<"}">>
X_TwoLines == <<"{">> \o json_member("summary", json_string(S_TwoLines)) \o <<"}">>
X_NoSummary == <<"{">> \o json_member("name", json_string(<<"Acme">>)) \o <<"}">>
X_NotJson == <<"Acme builds widgets.">>

ExtractedContents == {X_Summary, X_TwoLines, X_NoSummary, X_NotJson}

\* The texts the generation API can return: in the delimiter format of
\* main2's prompt, and in the JSON format of main3's.
G_Good ==
    <<"LINKEDIN_REQUEST_START", "\n", "Hi there", "\n", "LINKEDIN_REQUEST_END", "\n",
      "EMAIL_START", "\n", "Subject: Hello", "\n", "Body text", "\n", "EMAIL_END">>
G_NoMarkers == <<"Sorry, I cannot help with that.">>
\* A reply in the format whose request begins with the word Error.
G_ErrorWord ==
    <<"LINKEDIN_REQUEST_START", "\n", "Error", "-free releases are what I build.", "\n",
      "LINKEDIN_REQUEST_END", "\n",
      "EMAIL_START", "\n", "Subject: Hello", "\n", "Body text", "\n", "EMAIL_END">>
\* The JSON object of main3's prompt; a field that is Absent is left out.
json_reply(request, subject, body) ==
    LET members ==
            (IF request = Absent THEN <<>>
             ELSE <<json_member("linkedin_request", request)>>)
            \o (IF subject = Absent THEN <<>>
                ELSE <<json_member("email_subject", subject)>>)
            \o (IF body = Absent THEN <<>> ELSE <<json_member("email_body", body)>>)
        joined[i \in 0..Len(members)] ==
            IF i = 0 THEN <<>>
            ELSE IF i = 1 THEN members[1]
            ELSE joined[i - 1] \o <<",", " ">> \o members[i]
    IN  <<"{">> \o joined[Len(members)] \o <<"}">>

J_Good ==
    json_reply(json_string(<<"Hi there">>), json_string(<<"Hello">>),
               json_string(<<"Body text">>))
J_NumberRequest ==
    json_reply(<<"123">>, json_string(<<"Hello">>), json_string(<<"Body text">>))
J_NotJson == <<"Sorry, I cannot help with that.">>

GeneratedTexts ==
    IF variant = "main2" THEN {G_Good, G_NoMarkers, G_ErrorWord}
    ELSE {J_Good, J_NumberRequest, J_NotJson}

\* The lead information a search can yield: the snippets found, or one of
\* get_person_info's two sentinels.
PersonInfo == <<"Ann Lee - CTO at Acme: Leads engineering.">>

SearchResults == {PersonInfo, NoLinkedInProfile, NoInformationFound}

\* The messages of the exceptions an API call raises.
ApiErrors == {<<"Read timed out.">>, <<"429 Too Many Requests">>}

\* str(e) of the AttributeError that nan.strip() raises.
FloatHasNoStrip == <<"'float' object has no attribute 'strip'">>

\* A JSON null, decoded: None, which is no str and is falsy.
Null == <<"<null>">>

\* json.loads: the decoded value, as its Python type (or JSONDecodeError) and
\* the values of the keys the code reads from it; of a list, those of its
\* first element.
JsonValue(kind, summary, request, subject, body) ==
    [kind |-> kind, summary |-> summary, linkedin_request |-> request,
     email_subject |-> subject, email_body |-> body]

EmptyObject == JsonValue("dict", Absent, Absent, Absent, Absent)

\* A scan of a JSON text: whether a value was read, the value, and the text
\* after it.
NoValue == [ok |-> FALSE, kind |-> "none", val |-> <<>>, obj |-> EmptyObject, rest |-> <<>>]

ScalarValue(kind, val, rest) ==
    [ok |-> TRUE, kind |-> kind, val |-> val, obj |-> EmptyObject, rest |-> rest]

ObjectValue(obj, rest) ==
    [ok |-> TRUE, kind |-> "dict", val |-> <<>>, obj |-> obj, rest |-> rest]

\* The string literal whose opening quote has been read: up to the next
\* quote, with no raw control character inside, \n decoded.
scan_string(s) ==
    IF \E i \in 1..Len(s) : s[i] = Quote
    THEN LET i == CHOOSE i \in 1..Len(s) : s[i] = Quote /\ \A j \in 1..(i - 1) : s[j] # Quote
         IN  IF \E j \in 1..(i - 1) : s[j] \in {"\n", "\t"} THEN NoValue
             ELSE ScalarValue("str",
                              [j \in 1..(i - 1) |-> IF s[j] = "\\n" THEN "\n" ELSE s[j]],
                              SubSeq(s, i + 1, Len(s)))
    ELSE NoValue

\* A string, a number or null, at the head of s.
scalar_at(s) ==
    IF s = <<>> THEN NoValue
    ELSE IF Head(s) = Quote THEN scan_string(Tail(s))
    ELSE IF Head(s) = "123" THEN ScalarValue("int", NotStr, Tail(s))
    ELSE IF Head(s) = "null" THEN ScalarValue("NoneType", Null, Tail(s))
    ELSE NoValue

scan_scalar(s) == scalar_at(lstrip(s))

\* obj[key] = value, for the keys the code reads.
set_key(obj, key, value) ==
    CASE key = <<"summary">> -> [obj EXCEPT !.summary = value]
      [] key = <<"linkedin_request">> -> [obj EXCEPT !.linkedin_request = value]
      [] key = <<"email_subject">> -> [obj EXCEPT !.email_subject = value]
      [] key = <<"email_body">> -> [obj EXCEPT !.email_body = value]
      [] OTHER -> obj

\* The members of an object, from a key on, up to the closing brace: the
\* key, the colon, the value, then a comma and the next member, or the brace.
RECURSIVE scan_members(_, _)
member_next(obj, after) ==
    IF after = <<>> THEN NoValue
    ELSE IF Head(after) = "}" THEN ObjectValue(obj, Tail(after))
    ELSE IF Head(after) = "," THEN scan_members(Tail(after), obj)
    ELSE NoValue

member_end(obj, key, value) ==
    IF value.ok THEN member_next(set_key(obj, key.val, value.val), lstrip(value.rest))
    ELSE NoValue

member_value(obj, key, colon) ==
    IF key.ok /\ colon # <<>> /\ Head(colon) = ":"
    THEN member_end(obj, key, scan_scalar(Tail(colon)))
    ELSE NoValue

member_key(obj, key) == member_value(obj, key, lstrip(key.rest))

members_at(s, obj) ==
    IF s # <<>> /\ Head(s) = Quote THEN member_key(obj, scan_string(Tail(s))) ELSE NoValue

scan_members(s, obj) == members_at(lstrip(s), obj)

\* An object whose opening brace has been read.
object_at(s) ==
    IF s # <<>> /\ Head(s) = "}" THEN ObjectValue(EmptyObject, Tail(s))
    ELSE members_at(s, EmptyObject)

\* An object, a string, a number or null.
value_at(s) ==
    IF s = <<>> THEN NoValue
    ELSE IF Head(s) = "{" THEN object_at(lstrip(Tail(s)))
    ELSE scalar_at(s)

scan_value(s) == value_at(lstrip(s))

\* The elements of a list after its first, up to the closing bracket.
RECURSIVE scan_elements(_)
elements_after(value) == IF value.ok THEN scan_elements(value.rest) ELSE NoValue

elements_at(s) ==
    IF s = <<>> THEN NoValue
    ELSE IF Head(s) = "]" THEN ScalarValue("list", <<>>, Tail(s))
    ELSE IF Head(s) = "," THEN elements_after(scan_value(Tail(s)))
    ELSE NoValue

scan_elements(s) == elements_at(lstrip(s))

JSONDecodeError == JsonValue("JSONDecodeError", Absent, Absent, Absent, Absent)

\* A list whose opening bracket has been read: empty, or a first element and
\* the rest; nothing but white space may follow it.
list_end(first, end) ==
    IF end.ok /\ lstrip(end.rest) = <<>> THEN [first.obj EXCEPT !.kind = "list"]
    ELSE JSONDecodeError

list_first(first) ==
    IF first.ok THEN list_end(first, scan_elements(first.rest)) ELSE JSONDecodeError

list_at(s) ==
    IF s # <<>> /\ Head(s) = "]"
    THEN IF lstrip(Tail(s)) = <<>> THEN JsonValue("list", Absent, Absent, Absent, Absent)
         ELSE JSONDecodeError
    ELSE list_first(value_at(s))

\* A value that is not a list; nothing but white space may follow it.
document(value) ==
    IF value.ok /\ lstrip(value.rest) = <<>> THEN [value.obj EXCEPT !.kind = value.kind]
    ELSE JSONDecodeError

loads_at(s) ==
    IF s = <<>> THEN JSONDecodeError
    ELSE IF Head(s) = "[" THEN list_at(lstrip(Tail(s)))
    ELSE document(value_at(s))

json_loads(text) == loads_at(lstrip(text))

\* dict.get(key, default)
get(value, default) == IF value = Absent THEN default ELSE value

\* len() of a text: the characters of its words.
RECURSIVE len(_)
len(s) ==
    IF s = <<>> THEN 0
    ELSE IF Len(s) = 1 THEN Len(s[1])
    ELSE len(SubSeq(s, 1, Len(s) \div 2)) + len(SubSeq(s, Len(s) \div 2 + 1, Len(s)))

\* _parse_extraction_result: the summary of a decoded object that has one,
\* or of a list whose first element is such an object, else a sentinel.
summary_of(content_data) ==
    IF content_data.kind = "JSONDecodeError" THEN FailedToParseExtraction
    ELSE IF content_data.kind \in {"dict", "list"} /\ content_data.summary # Absent
         THEN content_data.summary
    ELSE NoSummaryExtracted

_parse_extraction_result(extracted_content) == summary_of(json_loads(extracted_content))

\* re.search(START \s*(.*?)\s* END, text, re.DOTALL): whether it matches, and
\* its group 1: the text between the first START and the first END after it,
\* without the white space at its ends.
marker_match(text, start, end) ==
    \E i \in 1..Len(text) : \E j \in (i + 1)..Len(text) : text[i] = start /\ text[j] = end

\* A faulty version of marker_group: a greedy group, up to the last END.
marker_group_greedy(text, start, end) ==
    LET i == CHOOSE i \in 1..Len(text) :
                 text[i] = start /\ \A k \in 1..(i - 1) : text[k] # start
        j == CHOOSE j \in (i + 1)..Len(text) :
                 text[j] = end /\ \A k \in (j + 1)..Len(text) : text[k] # end
    IN  strip(SubSeq(text, i + 1, j - 1))

marker_group(text, start, end) ==
    LET i == CHOOSE i \in 1..Len(text) :
                 text[i] = start /\ \A k \in 1..(i - 1) : text[k] # start
        j == CHOOSE j \in (i + 1)..Len(text) :
                 text[j] = end /\ \A k \in (i + 1)..(j - 1) : text[k] # end
    IN  strip(SubSeq(text, i + 1, j - 1))

\* The longest LinkedIn request main2 lets through, and what is kept of a
\* longer one.
MaxRequestLen == 300

\* A faulty version of KeptRequestLen: the whole limit is kept before the dots.
KeptRequestLen_limit == MaxRequestLen

KeptRequestLen == 297

\* A faulty version of parse_delimited: one missing marker pair fails both
\* fields.
parse_delimited_all_or_nothing(generated_text) ==
    IF /\ marker_match(generated_text, "LINKEDIN_REQUEST_START", "LINKEDIN_REQUEST_END")
       /\ marker_match(generated_text, "EMAIL_START", "EMAIL_END")
    THEN <<marker_group(generated_text, "LINKEDIN_REQUEST_START", "LINKEDIN_REQUEST_END"),
           marker_group(generated_text, "EMAIL_START", "EMAIL_END")>>
    ELSE <<FailedLinkedIn, FailedEmail>>

\* main2's _parse_generated_content: <<linkedin_request, email_full>>.  A
\* content that is None makes re.search raise TypeError, which the except
\* clause turns into the two sentinels.  (A text longer than the limit is
\* held character by character, so that the slice is exact.)
parse_delimited(generated_text) ==
    LET linkedin_request ==
            IF marker_match(generated_text, "LINKEDIN_REQUEST_START", "LINKEDIN_REQUEST_END")
            THEN marker_group(generated_text, "LINKEDIN_REQUEST_START", "LINKEDIN_REQUEST_END")
            ELSE FailedLinkedIn
        email_full ==
            IF marker_match(generated_text, "EMAIL_START", "EMAIL_END")
            THEN marker_group(generated_text, "EMAIL_START", "EMAIL_END")
            ELSE FailedEmail
    IN  IF generated_text = None THEN <<FailedLinkedIn, FailedEmail>>
        ELSE <<IF len(linkedin_request) > MaxRequestLen
               THEN SubSeq(linkedin_request, 1, KeptRequestLen) \o <<".", ".", ".">>
               ELSE linkedin_request,
               email_full>>

\* The fence of a markdown code block: three backquotes.
Fence == "<fence>"

\* re.search(<fence>json \s*(.*?)\s* <fence>, text, re.DOTALL): whether it matches,
\* and its group 1.
json_fence_match(text) ==
    \E i \in 1..Len(text) : \E j \in (i + 2)..Len(text) :
        text[i] = Fence /\ text[i + 1] = "json" /\ text[j] = Fence

json_fence_group(text) ==
    LET opens(i) == /\ text[i] = Fence
                    /\ text[i + 1] = "json"
                    /\ \E j \in (i + 2)..Len(text) : text[j] = Fence
        i == CHOOSE i \in 1..(Len(text) - 2) : opens(i) /\ \A k \in 1..(i - 1) : ~opens(k)
        j == CHOOSE j \in (i + 2)..Len(text) :
                 text[j] = Fence /\ \A k \in (i + 2)..(j - 1) : text[k] # Fence
    IN  strip(SubSeq(text, i + 2, j - 1))

\* _extract_json_from_markdown, with the fences tried in the other order.
_extract_json_generic_first(text) ==
    IF marker_match(text, Fence, Fence) THEN strip(marker_group(text, Fence, Fence))
    ELSE IF json_fence_match(text) THEN strip(json_fence_group(text))
    ELSE strip(text)

\* _extract_json_from_markdown: the content of a block fenced and tagged
\* json, else of any fenced block, else the text, stripped.
_extract_json_from_markdown(text) ==
    IF json_fence_match(text) THEN strip(json_fence_group(text))
    ELSE IF marker_match(text, Fence, Fence) THEN strip(marker_group(text, Fence, Fence))
    ELSE strip(text)

\* bool(value) of a decoded value: an empty string and None are falsy.
truthy(value) == value # <<>> /\ value # Null

\* str(value) inside an f-string.
str(value) ==
    IF value = Null THEN <<"None">> ELSE IF value = NotStr THEN <<"123">> ELSE value

\* main3's _parse_generated_content: <<linkedin_request, email_full>>.  A
\* content that is None raises in _extract_json_from_markdown, a decoded
\* value that is no dict raises at .get: the last except clause turns both
\* into the two sentinels.
email_full(email_subject, email_body) ==
    IF truthy(email_subject)
    THEN <<"Subject: ">> \o str(email_subject) \o <<"\n", "\n">> \o str(email_body)
    ELSE email_body

\* A faulty version of parse_data: the decoded value is read without the
\* except clause that a value that is no dict needs.
parse_data_unguarded(data) ==
    IF data.kind = "JSONDecodeError" THEN <<FailedJson, FailedJson>>
    ELSE <<get(data.linkedin_request, FailedLinkedIn),
           email_full(get(data.email_subject, <<>>), get(data.email_body, <<>>))>>

parse_data(data) ==
    IF data.kind = "JSONDecodeError" THEN <<FailedJson, FailedJson>>
    ELSE IF data.kind # "dict" THEN <<FailedLinkedIn, FailedEmail>>
    ELSE <<get(data.linkedin_request, FailedLinkedIn),
           email_full(get(data.email_subject, <<>>), get(data.email_body, <<>>))>>

parse_json(generated_text) ==
    IF generated_text = None THEN <<FailedLinkedIn, FailedEmail>>
    ELSE parse_data(json_loads(_extract_json_from_markdown(generated_text)))

_parse_generated_content(generated_text) ==
    IF variant = "main2" THEN parse_delimited(generated_text) ELSE parse_json(generated_text)

----------------------------------------------------------------------------
(* The rows, and what the collaborators can answer.                        *)

\* Bounds: the rows of a run of the row-by-row specification, and of the
\* batch specification.
MaxRows == 2
MaxBatchRows == 6

FirstNames == {<<"Ann">>, NaN}
LastNames == {<<>>, <<"Lee">>}
CompanyNames == {<<"Acme Corp">>, <<"Initech">>, NaN}
Websites == {<<>>, <<"https://", "acme.example">>, <<"ftp://", "acme.example">>}

Rows == [first : FirstNames, last : LastNames, company : CompanyNames, website : Websites]

NoRow == [first |-> None, last |-> None, company |-> None, website |-> None]

\* The outcome of one attempt of a call: its value, or the message of the
\* exception it raised.
Returned(v) == [ok |-> TRUE, val |-> v]
Raised(e) == [ok |-> FALSE, val |-> e]

SearchOutcomes == {Returned(v) : v \in SearchResults} \cup {Raised(e) : e \in ApiErrors}

\* ChatCompletion.create: without an API key every call is refused.
Unauthorized == <<"401 Unauthorized">>

GenerationOutcomes ==
    IF fireworks_api_key = None THEN {Raised(Unauthorized)}
    ELSE {Returned(t) : t \in GeneratedTexts} \cup {Raised(e) : e \in ApiErrors}

\* crawler.arun: raises, returns an unsuccessful or empty result (modelled
\* as the empty content), or returns extracted content.
FetchOutcomes ==
    {Returned(c) : c \in ExtractedContents \cup {<<>>}} \cup {Raised(e) : e \in ApiErrors}

\* The retried call that is recorded: the attempts made of it, and the
\* outcome of the last one.  (An attempt that returns ends the call: every
\* attempt before the last one raised.)
NoOutcome == [ok |-> FALSE, val |-> None]

NoCall == [op |-> "none", n |-> 0, last |-> NoOutcome]

Call(op) == [op |-> op, n |-> 0, last |-> NoOutcome]

Attempt(outcome) == [attempts EXCEPT !.n = @ + 1, !.last = outcome]

----------------------------------------------------------------------------
(* The DataFrame and the output workbook.                                  *)

EmptyCells == [lr |-> <<>>, ce |-> <<>>, status |-> "", at |-> FALSE]

NoWorkbook == [exists |-> FALSE, rows |-> <<>>]

\* process_row has not returned.
NoResult == [lr |-> None, ce |-> None]

\* f"Error: {str(e)}"
Error(e) == <<"Error", ":", " ">> \o e

\* result["LinkedIn Request"].startswith("Error")
startswith_error(s) == startswith(s, <<"Error">>)

\* The rows between two periodic saves.
SaveEvery == 5

\* backoff's max_tries.
max_tries == 3

\* Two faulty versions of give_up: one attempt too few, one too many.
give_up_after_two(n, max_time_exceeded) == n = 2 \/ max_time_exceeded

give_up_after_four(n, max_time_exceeded) == n = 4 \/ max_time_exceeded

\* backoff.on_exception gives up, and re-raises, when the attempt just made
\* was the max_tries-th or max_time has passed.
give_up(n, max_time_exceeded) == n = max_tries \/ max_time_exceeded

\* A faulty version of cache_hit: only the oldest entry of the cache is
\* looked at.
cache_hit_oldest(company_name) ==
    company_cache # <<>> /\ company_cache[1][1] = company_name

\* A faulty version of cache_hit: the cache is not consulted.
cache_hit_never(company_name) == FALSE

\* company_name in self.company_cache
cache_hit(company_name) == dict_has(company_cache, company_name)

\* _is_valid_url
_is_valid_url(url) ==
    /\ url # <<>>
    /\ url # NaN
    /\ \/ startswith(url, <<"http://">>)
       \/ startswith(url, <<"https://">>)

\* The value of FIREWORKS_API_KEY in the environment, when it is set.
ApiKey == <<"fw_key">>

\* The ticks of one time unit of the clock, and self.min_delay (1.0).
TicksPerUnit == 2

min_delay == 1 * TicksPerUnit

\* No reply of the generation API is being parsed.
NoReply == [kind |-> "none"]

\* The clock, the parser and main.py's scraper as __init__ leaves them:
\* last_api_call is 0, and the clock has long passed min_delay.
SideAtRest ==
    /\ now = min_delay
    /\ last_api_call = 0
    /\ last_call_end = 0
    /\ message_content = None
    /\ reply = NoReply
    /\ schema_file = NoFile
    /\ company_website = None
    /\ strategy = "none"
    /\ extracted = NoOutcome
    /\ sleeps = <<>>
    /\ fireworks_api_key = ApiKey
    /\ completed_saves = {}
    /\ summarised = {}

\* The state in which no row is being processed.
NoRowInProgress ==
    /\ row = NoRow
    /\ lead_info = None
    /\ company_info = None
    /\ result = NoResult
    /\ tries = 0
    /\ attempts = NoCall
    /\ gave_up_on_time = FALSE
    /\ fetch_calls = 0
    /\ gen_calls = 0
    /\ was_cached = FALSE
    /\ raised = None

\* The variables the cache specification does not use.
Idle ==
    /\ NoRowInProgress
    /\ nrows = 0
    /\ index = 0
    /\ df = [i \in {} |-> EmptyCells]
    /\ output_file = NoWorkbook
    /\ successful_rows = 0
    /\ failed_rows = 0
    /\ excel_writes = <<>>

----------------------------------------------------------------------------
(* process_row.                                                            *)

\* A faulty version of Catch: no except clause, the exception leaves process_row and
\* the loop.
Catch_not(e) ==
    /\ result' = NoResult
    /\ raised' = e
    /\ pc' = "raised"

\* A faulty version of Catch: on an exception the row is begun again.
Catch_again(e) ==
    /\ result' = NoResult
    /\ raised' = e
    /\ pc' = "process_row"

\* The except clause of process_row: the exception becomes the row's result.
Catch(e) ==
    /\ result' = [lr |-> Error(e), ce |-> Error(e)]
    /\ raised' = e
    /\ pc' = "update_df"

\* for index, row in df.iterrows(): the next row enters process_row.
LoopNext ==
    /\ pc = "loop"
    /\ index < nrows
    /\ \E r \in Rows :
        /\ row' = r
        /\ was_cached' = dict_has(company_cache, r.company)
    /\ pc' = "process_row"
    /\ UNCHANGED <<variant, side_vars, cache_vars, batch_vars, lead_info, company_info, result, tries,
                   attempts, gave_up_on_time, fetch_calls, gen_calls, raised, excel_writes>>

\* The lead's names: main2 strips them and searches when it has both; main3
\* does no lead research.
ReadNames ==
    /\ pc = "process_row"
    /\ IF variant = "main3"
       THEN /\ lead_info' = <<>>
            /\ pc' = "company"
            /\ UNCHANGED <<result, raised, attempts>>
       ELSE IF row.first = NaN \/ row.last = NaN
       THEN /\ Catch(FloatHasNoStrip)
            /\ UNCHANGED <<lead_info, attempts>>
       ELSE IF strip(row.first) # <<>> /\ strip(row.last) # <<>>
       THEN /\ pc' = "get_person_info"
            /\ attempts' = Call("get_person_info")
            /\ UNCHANGED <<lead_info, result, raised>>
       ELSE /\ lead_info' = <<>>
            /\ pc' = "company"
            /\ UNCHANGED <<result, raised, attempts>>
    /\ UNCHANGED <<variant, side_vars, cache_vars, batch_vars, row, company_info, tries,
                   gave_up_on_time, fetch_calls, gen_calls, was_cached, excel_writes>>

\* One attempt of get_person_info under backoff (max_tries=3, max_time=60):
\* the search returns, or raises and is retried or given up.
GetPersonInfo ==
    /\ pc = "get_person_info"
    /\ \E outcome \in SearchOutcomes, max_time_exceeded \in BOOLEAN :
        /\ attempts' = Attempt(outcome)
        /\ IF outcome.ok
           THEN /\ lead_info' = outcome.val
                /\ pc' = "company"
                /\ tries' = 0
                /\ UNCHANGED <<result, raised, gave_up_on_time>>
           ELSE IF give_up(tries + 1, max_time_exceeded)
           THEN /\ Catch(outcome.val)
                /\ gave_up_on_time' = (max_time_exceeded /\ tries + 1 < max_tries)
                /\ tries' = 0
                /\ UNCHANGED lead_info
           ELSE /\ tries' = tries + 1
                /\ UNCHANGED <<lead_info, result, raised, pc, gave_up_on_time>>
    /\ UNCHANGED <<variant, side_vars, cache_vars, batch_vars, row, company_info,
                   fetch_calls, gen_calls, was_cached, excel_writes>>

\* The company's summary: from the cache, or by scraping the website.
CompanyLookup ==
    /\ pc = "company"
    /\ IF cache_hit(row.company)
       THEN /\ company_info' = dict_get(company_cache, row.company)
            /\ pc' = "check_content"
            /\ UNCHANGED attempts
       ELSE IF row.website # <<>>
       THEN /\ pc' = "scrape_url"
            /\ attempts' = Call("scrape_url")
            /\ UNCHANGED company_info
       ELSE /\ company_info' = <<>>
            /\ pc' = "check_content"
            /\ UNCHANGED attempts
    /\ UNCHANGED <<variant, side_vars, cache_vars, batch_vars, row, lead_info, result, tries,
                   gave_up_on_time, fetch_calls, gen_calls, was_cached, raised, excel_writes>>

\* What scrape_url's body returns for an outcome of the fetch: its except
\* clause turns an exception into the empty text.
scrape_result(outcome) ==
    IF ~outcome.ok \/ outcome.val = <<>> THEN <<>>
    ELSE _parse_extraction_result(outcome.val)

\* A faulty version of scrape_raises: no try/except in scrape_url, the
\* exception of the fetch reaches backoff's wrapper.
scrape_raises_through(outcome) == ~outcome.ok

\* Whether scrape_url's body raises into backoff's wrapper: its except
\* clause catches every Exception.
scrape_raises(outcome) == FALSE

\* await self.scrape_url(company_website), and the write-through of a usable
\* summary into the cache and its file.  An exception that left scrape_url
\* would be retried by backoff and then caught by process_row.
ScrapeUrl ==
    /\ pc = "scrape_url"
    /\ IF ~_is_valid_url(row.website)
       THEN /\ company_info' = <<>>
            /\ pc' = "check_content"
            /\ UNCHANGED <<cache_vars, summarised, attempts, fetch_calls, tries, result, raised>>
       ELSE \E outcome \in FetchOutcomes :
            /\ fetch_calls' = fetch_calls + 1
            /\ attempts' = Attempt(outcome)
            /\ IF scrape_raises(outcome)
               THEN /\ IF give_up(tries + 1, FALSE)
                       THEN /\ Catch(outcome.val)
                            /\ tries' = 0
                       ELSE /\ tries' = tries + 1
                            /\ UNCHANGED <<result, raised, pc>>
                    /\ UNCHANGED <<company_info, cache_vars, summarised>>
               ELSE /\ tries' = 0
                    /\ company_info' = scrape_result(outcome)
                    /\ pc' = "check_content"
                    /\ IF company_info' # <<>> /\ company_info' # NoSummaryExtracted
                       THEN /\ company_cache' =
                                  dict_set(company_cache, row.company, company_info')
                            /\ save_company_cache(company_cache')
                            /\ summarised' = summarised \cup {row.company}
                       ELSE UNCHANGED <<cache_vars, summarised>>
                    /\ UNCHANGED <<result, raised>>
    /\ UNCHANGED <<variant, clock_vars, parse_vars, extract_vars, sleeps, fireworks_api_key,
                   completed_saves, batch_vars, row, lead_info,
                   gave_up_on_time, gen_calls, was_cached, excel_writes>>

\* The sentinel returned when there is nothing to write from.
no_content == IF variant = "main2" THEN NoContentAvailable ELSE NoCompanyInfoAvailable

\* A faulty version of nothing_gathered: a "not" is lost.
nothing_gathered_lost_not ==
    IF variant = "main2"
    THEN strip(lead_info) = <<>> /\ strip(company_info) # <<>>
    ELSE strip(company_info) # <<>>

\* Whether there is nothing to write from: main2 looks at both texts, main3
\* at the company's only.
nothing_gathered ==
    IF variant = "main2"
    THEN strip(lead_info) = <<>> /\ strip(company_info) = <<>>
    ELSE strip(company_info) = <<>>

CheckContent ==
    /\ pc = "check_content"
    /\ IF nothing_gathered
       THEN /\ result' = [lr |-> no_content, ce |-> no_content]
            /\ pc' = "update_df"
            /\ UNCHANGED attempts
       ELSE /\ pc' = "generate_content"
            /\ attempts' = Call("generate_content")
            /\ UNCHANGED result
    /\ UNCHANGED <<variant, side_vars, cache_vars, batch_vars, row, lead_info, company_info, tries,
                   gave_up_on_time, fetch_calls, gen_calls, was_cached, raised, excel_writes>>

\* A faulty version of parse_raises: a text that cannot be parsed is an
\* exception of generate_content.
parse_raises_on_failure(generated_text) ==
    _parse_generated_content(generated_text)[1] \in {FailedLinkedIn, FailedJson}

\* Whether _parse_generated_content raises into generate_content: its except
\* clauses catch every Exception and return sentinels.
parse_raises(generated_text) == FALSE

\* One attempt of generate_content under backoff (max_tries=3): the API
\* returns a text, which is parsed, or raises and is retried or given up.
GenerateContent ==
    /\ pc = "generate_content"
    /\ \E outcome \in GenerationOutcomes :
        /\ attempts' = Attempt(outcome)
        /\ gen_calls' = gen_calls + 1
        /\ IF outcome.ok /\ ~parse_raises(outcome.val)
           THEN /\ result' = [lr |-> _parse_generated_content(outcome.val)[1],
                              ce |-> _parse_generated_content(outcome.val)[2]]
                /\ pc' = "update_df"
                /\ tries' = 0
                /\ UNCHANGED raised
           ELSE IF give_up(tries + 1, FALSE)
           THEN /\ Catch(outcome.val)
                /\ tries' = 0
           ELSE /\ tries' = tries + 1
                /\ UNCHANGED <<result, raised, pc>>
    /\ UNCHANGED <<variant, side_vars, cache_vars, batch_vars, row, lead_info, company_info,
                   gave_up_on_time, fetch_calls, was_cached, excel_writes>>

----------------------------------------------------------------------------
(* process_excel_file.                                                     *)

\* The except clause of the loop body: the row is stamped a fatal error and
\* counted as failed; the loop goes on with the next row.
FatalError(cells) ==
    /\ df' = [df EXCEPT ![index] = [cells EXCEPT !.status = "Fatal Error", !.at = TRUE]]
    /\ failed_rows' = failed_rows + 1
    /\ index' = index + 1
    /\ pc' = "loop"
    /\ result' = NoResult
    /\ raised' = None
    /\ UNCHANGED sleeps

\* A faulty version of SleepAndGoOn: the loop passes over a row.
SleepAndGoOn_skip ==
    /\ sleeps' = Append(sleeps, index)
    /\ index' = index + 2
    /\ pc' = "loop"
    /\ result' = NoResult
    /\ raised' = None

\* await asyncio.sleep(1), and on to the next row.
SleepAndGoOn ==
    /\ sleeps' = Append(sleeps, index)
    /\ index' = index + 1
    /\ pc' = "loop"
    /\ result' = NoResult
    /\ raised' = None

\* process_row has returned (its locals are gone): the result is written
\* into the row's cells, the row is given its status and counted.  A LinkedIn request that is not a str has no startswith: the
\* two texts are written, and the AttributeError is a fatal error of the row.
UpdateDf ==
    /\ pc = "update_df"
    /\ LET written == [df[index] EXCEPT !.lr = result.lr, !.ce = result.ce]
       IN  IF result.lr = NotStr
           THEN /\ FatalError(written)
                /\ UNCHANGED successful_rows
           ELSE /\ df' = [df EXCEPT ![index] =
                             [written EXCEPT
                                 !.status = IF startswith_error(result.lr)
                                            THEN "Failed" ELSE "Success",
                                 !.at = TRUE]]
                /\ IF startswith_error(result.lr)
                   THEN failed_rows' = failed_rows + 1 /\ UNCHANGED successful_rows
                   ELSE successful_rows' = successful_rows + 1 /\ UNCHANGED failed_rows
                /\ pc' = "periodic"
                /\ UNCHANGED <<index, result, raised, sleeps>>
    /\ row' = NoRow
    /\ lead_info' = None
    /\ company_info' = None
    /\ attempts' = NoCall
    /\ gave_up_on_time' = FALSE
    /\ fetch_calls' = 0
    /\ gen_calls' = 0
    /\ was_cached' = FALSE
    /\ UNCHANGED <<variant, clock_vars, parse_vars, extract_vars, fireworks_api_key,
                   completed_saves, summarised,
                   cache_vars, nrows, output_file, tries, excel_writes>>

\* Every fifth row df.to_excel writes the workbook, or raises, which is a
\* fatal error of the row; then the pause between rows.
PeriodicSave ==
    /\ pc = "periodic"
    /\ IF (index + 1) % SaveEvery = 0
       THEN \E written \in BOOLEAN :
            /\ excel_writes' = Append(excel_writes, index + 1)
            /\ IF written
               THEN /\ output_file' = [exists |-> TRUE, rows |-> df]
                    /\ SleepAndGoOn
                    /\ UNCHANGED <<df, failed_rows>>
               ELSE /\ FatalError(df[index])
                    /\ UNCHANGED output_file
       ELSE /\ SleepAndGoOn
            /\ UNCHANGED <<df, failed_rows, output_file, excel_writes>>
    /\ UNCHANGED <<variant, clock_vars, parse_vars, extract_vars, fireworks_api_key,
                   completed_saves, summarised,
                   cache_vars, nrows, successful_rows, tries, row, lead_info, company_info, attempts,
                   gave_up_on_time, fetch_calls, gen_calls, was_cached>>

\* After the loop: the final df.to_excel, then the final save of the cache.
\* A to_excel that raises ends process_excel_file with that exception.
FinalSave ==
    /\ pc = "loop"
    /\ index = nrows
    /\ excel_writes' = Append(excel_writes, 0)
    /\ \E written \in BOOLEAN :
       IF written
       THEN /\ output_file' = [exists |-> TRUE, rows |-> df]
            /\ save_company_cache(company_cache)
            /\ pc' = "done"
       ELSE /\ pc' = "raised"
            /\ UNCHANGED <<output_file, cache_file, backup_file, saved_cache>>
    /\ UNCHANGED <<variant, side_vars, company_cache, row_vars, nrows, index, df, successful_rows,
                   failed_rows, attempts, gave_up_on_time, fetch_calls, gen_calls,
                   was_cached, raised>>

----------------------------------------------------------------------------
(* The run, row by row.                                                    *)

\* The cache file a previous run can have left.
StoredCaches == {<<>>, <<<<<<"Acme Corp">>, S_Widgets>>>>}

Init ==
    /\ variant \in {"main2", "main3"}
    /\ nrows \in 1..MaxRows
    /\ index = 0
    /\ df = [i \in 0..(nrows - 1) |-> EmptyCells]
    /\ output_file = NoWorkbook
    /\ successful_rows = 0
    /\ failed_rows = 0
    /\ excel_writes = <<>>
    /\ \E stored \in StoredCaches :
        /\ cache_file = IF stored = <<>> THEN NoFile ELSE File(saved_text(stored))
        /\ company_cache = load_company_cache(cache_file)
        /\ saved_cache = stored
    /\ backup_file = NoFile
    /\ NoRowInProgress
    /\ SideAtRest
    /\ pc = "loop"

Next ==
    \/ LoopNext
    \/ ReadNames
    \/ GetPersonInfo
    \/ CompanyLookup
    \/ ScrapeUrl
    \/ CheckContent
    \/ GenerateContent
    \/ UpdateDf
    \/ PeriodicSave
    \/ FinalSave

Spec == Init /\ [][Next]_vars

----------------------------------------------------------------------------
(* The run as a batch: process_row as one step, by what it returns.        *)

\* What process_row can return, with the exception it caught if any: the
\* no-content sentinel, the message of an exception, or the parsed reply of
\* the generation API.
ProcessRowReturns ==
    {[res |-> [lr |-> no_content, ce |-> no_content], exc |-> None]}
    \cup {[res |-> [lr |-> Error(e), ce |-> Error(e)], exc |-> e] :
             e \in ApiErrors \cup (IF variant = "main2" THEN {FloatHasNoStrip} ELSE {})}
    \cup {[res |-> [lr |-> _parse_generated_content(t)[1],
                    ce |-> _parse_generated_content(t)[2]], exc |-> None] :
             t \in GeneratedTexts}

\* result = await self.process_row(index, row, resume_content)
ProcessRow ==
    /\ pc = "loop"
    /\ index < nrows
    /\ \E r \in ProcessRowReturns :
        /\ result' = r.res
        /\ raised' = r.exc
    /\ pc' = "update_df"
    /\ UNCHANGED <<variant, side_vars, cache_vars, batch_vars, row, lead_info, company_info, tries,
                   attempts, gave_up_on_time, fetch_calls, gen_calls, was_cached,
                   excel_writes>>

InitBatch ==
    /\ variant \in {"main2", "main3"}
    /\ nrows \in 0..MaxBatchRows
    /\ index = 0
    /\ df = [i \in 0..(nrows - 1) |-> EmptyCells]
    /\ output_file = NoWorkbook
    /\ successful_rows = 0
    /\ failed_rows = 0
    /\ excel_writes = <<>>
    /\ company_cache = <<>>
    /\ cache_file = NoFile
    /\ backup_file = NoFile
    /\ saved_cache = <<>>
    /\ NoRowInProgress
    /\ SideAtRest
    /\ pc = "loop"

NextBatch == ProcessRow \/ UpdateDf \/ PeriodicSave \/ FinalSave

SpecBatch == InitBatch /\ [][NextBatch]_vars

\* The batch specification leaves out nothing process_row can return: in the
\* row-by-row specification every return is one of ProcessRowReturns.
ProcessRowIsSummarised ==
    pc = "update_df" => [res |-> result, exc |-> raised] \in ProcessRowReturns

----------------------------------------------------------------------------
(* The cache on its own: entries are put, the cache is saved, and a new    *)
(* process loads it.                                                       *)

\* The characters of the keys and summaries of this specification.
Alphabet == {"a", "|", "\n"}

\* Bounds: the entries of a cache, and the characters of all its keys and
\* summaries together.
MaxEntries == 2
MaxChars == 5

Texts(n) == UNION {[1..m -> Alphabet] : m \in 0..n}

RECURSIVE chars(_)
chars(d) == IF d = <<>> THEN 0 ELSE Len(Head(d)[1]) + Len(Head(d)[2]) + chars(Tail(d))

InitCache ==
    /\ variant = "main2"
    /\ company_cache = <<>>
    /\ cache_file = NoFile
    /\ backup_file = NoFile
    /\ saved_cache = <<>>
    /\ pc = "memory"
    /\ Idle
    /\ SideAtRest

\* self.company_cache[company_name] = company_info
CachePut ==
    /\ pc = "memory"
    /\ Len(company_cache) < MaxEntries
    /\ \E k \in Texts(MaxChars - chars(company_cache)) :
       \E v \in Texts(MaxChars - chars(company_cache) - Len(k)) :
            company_cache' = dict_set(company_cache, k, v)
    /\ UNCHANGED <<variant, side_vars, cache_file, backup_file, saved_cache, pc, row_vars, batch_vars, hist_vars>>

CacheSave ==
    /\ pc = "memory"
    /\ save_company_cache(company_cache)
    /\ pc' = "saved"
    /\ UNCHANGED <<variant, side_vars, company_cache, row_vars, batch_vars, hist_vars>>

\* OutreachGenerator.__init__ of the next process.
CacheLoad ==
    /\ pc = "saved"
    /\ company_cache' = load_company_cache(cache_file)
    /\ pc' = "loaded"
    /\ UNCHANGED <<variant, side_vars, cache_file, backup_file, saved_cache, row_vars, batch_vars, hist_vars>>

NextCache == CachePut \/ CacheSave \/ CacheLoad

SpecCache == InitCache /\ [][NextCache]_vars

----------------------------------------------------------------------------
(* The rate limiter: the API calls of a run and the time between them.     *)

\* Bounds: the ticks the clock is followed for, the ticks an API call can
\* take, and the ticks that can pass between two calls.
MaxTime == 14
MaxCallTicks == 3
MaxPauseTicks == 3

main_vars ==
    <<cache_vars, row_vars, batch_vars, hist_vars, parse_vars, extract_vars, sleeps,
      fireworks_api_key, completed_saves, summarised>>

InitRate ==
    /\ variant \in {"main2", "main3"}
    /\ company_cache = <<>>
    /\ cache_file = NoFile
    /\ backup_file = NoFile
    /\ saved_cache = <<>>
    /\ Idle
    /\ SideAtRest
    /\ pc = "idle"

\* time.sleep(sleep_time)
sleep_time(current_time) ==
    IF current_time - last_api_call < min_delay
    THEN min_delay - (current_time - last_api_call)
    ELSE 0

\* self._apply_rate_limit(), at the head of get_person_info and of
\* generate_content: it sleeps if the last stamp is less than min_delay old,
\* stamps the clock, and the API call is issued.
ApplyRateLimit ==
    /\ pc = "idle"
    /\ now + sleep_time(now) <= MaxTime
    /\ now' = now + sleep_time(now)
    /\ last_api_call' = now'
    /\ pc' = "calling"
    /\ UNCHANGED <<variant, last_call_end, main_vars>>

\* The API call (search.get_dict(), ChatCompletion.create) takes its time and
\* returns or raises.
ApiCall ==
    /\ pc = "calling"
    /\ \E took \in 0..MaxCallTicks :
        /\ now + took <= MaxTime
        /\ now' = now + took
    /\ last_call_end' = now'
    /\ pc' = "idle"
    /\ UNCHANGED <<variant, last_api_call, main_vars>>

\* Between two calls time passes: backoff waits before its next attempt,
\* a page is scraped, asyncio.sleep(1) separates two rows.
Pause ==
    /\ pc = "idle"
    /\ \E ticks \in 1..MaxPauseTicks :
        /\ now + ticks <= MaxTime
        /\ now' = now + ticks
    /\ UNCHANGED <<variant, pc, last_api_call, last_call_end, main_vars>>

NextRate == ApplyRateLimit \/ ApiCall \/ Pause

SpecRate == InitRate /\ [][NextRate]_vars

----------------------------------------------------------------------------
(* The parser of the generation API's reply, on its own.                   *)

\* Bound: how far beyond (and below) the limit the long requests go.
MaxOver == 2

Rep(n, c) == [i \in 1..n |-> c]

\* The white space a model puts around a section's text.
Pads == {<<>>, <<"\n">>, <<" ", "\n">>}

\* The requests a reply can carry: short ones, and ones around the limit of
\* 300 characters, character by character.
ShortRequests == {<<>>, <<"Hi there">>}

LongRequests ==
    {Rep(n, "x") : n \in (MaxRequestLen - 1)..(MaxRequestLen + MaxOver)}
    \cup {Rep(KeptRequestLen - 1, "x") \o <<" ">> \o Rep(MaxOver + 2, "y")}

Requests == ShortRequests \cup LongRequests

Emails == {<<"Subject: Hello", "\n", "Body text">>, <<"Body text">>}

\* How a section of a delimited reply can come out: its two markers around
\* the text; twice; one marker missing; the markers swapped; no marker.
Shapes == {"pair", "two_pairs", "no_end", "no_start", "reversed", "none"}

section(shape, start, end, body, pad) ==
    CASE shape = "pair" -> <<start>> \o pad \o body \o pad \o <<end>>
      [] shape = "two_pairs" ->
             <<start>> \o pad \o body \o pad \o <<end, "\n", start, "Once more", end>>
      [] shape = "no_end" -> <<start>> \o pad \o body
      [] shape = "no_start" -> body \o pad \o <<end>>
      [] shape = "reversed" -> <<end>> \o pad \o body \o pad \o <<start>>
      [] OTHER -> body

DelimitedReplies ==
    [kind : {"delimited"}, link : Shapes, request : Requests, pad : Pads,
     mail : Shapes, email : Emails]

delimited_text(r) ==
    section(r.link, "LINKEDIN_REQUEST_START", "LINKEDIN_REQUEST_END", r.request, r.pad)
    \o <<"\n">>
    \o section(r.mail, "EMAIL_START", "EMAIL_END", r.email, r.pad)

\* The values of the fields of a JSON reply, and the JSON text of a value.
JsonRequests == Requests \cup {Absent, NotStr, Null}
JsonSubjects == {Absent, <<>>, <<"Hello">>, Null}
JsonBodies == {Absent, <<"Body text">>, <<"Line one", "\n", "Line two">>}

json_text_of(value) ==
    IF value = Absent THEN Absent
    ELSE IF value = NotStr THEN <<"123">>
    ELSE IF value = Null THEN <<"null">>
    ELSE json_string(value)

\* How the document of a JSON reply can be wrapped: not at all; in a block
\* fenced and tagged json; in a fenced block; in a block tagged json after
\* another fenced block; behind an opening fence that is never closed.
Wraps == {"raw", "json_fence", "fence", "fence_then_json", "unclosed"}

wrap(how, doc, pad) ==
    CASE how = "raw" -> pad \o doc \o pad
      [] how = "json_fence" ->
             <<"Here you go:", "\n", Fence, "json">> \o pad \o doc \o pad \o <<Fence>>
      [] how = "fence" -> <<Fence>> \o pad \o doc \o pad \o <<Fence, "\n", "Good luck!">>
      [] how = "fence_then_json" ->
             <<Fence, "\n", "A note.", "\n", Fence, "\n", Fence, "json">> \o pad \o doc
             \o pad \o <<Fence>>
      [] OTHER -> <<Fence, "json", "\n">> \o doc

\* Documents that are no JSON object: a list, a number, null, a string, and
\* texts that are no JSON.
OtherDocuments ==
    {<<"[">> \o J_Good \o <<"]">>, <<"[", "]">>, <<"123">>, <<"null">>,
     json_string(<<"Hi there">>), J_NotJson, <<"{">> \o json_string(<<"linkedin_request">>),
     <<>>}

JsonReplies ==
    [kind : {"json"}, wrap : Wraps, pad : Pads, request : JsonRequests,
     subject : JsonSubjects, body : JsonBodies]
    \cup [kind : {"other"}, wrap : Wraps \ {"unclosed"}, pad : Pads, doc : OtherDocuments]

json_reply_text(r) ==
    IF r.kind = "json"
    THEN wrap(r.wrap,
              json_reply(json_text_of(r.request), json_text_of(r.subject),
                         json_text_of(r.body)),
              r.pad)
    ELSE wrap(r.wrap, r.doc, r.pad)

\* A reply without content: message.content is None.
NoContent == [kind |-> "no_content"]

InitParse ==
    /\ variant \in {"main2", "main3"}
    /\ company_cache = <<>>
    /\ cache_file = NoFile
    /\ backup_file = NoFile
    /\ saved_cache = <<>>
    /\ Idle
    /\ now = min_delay
    /\ last_api_call = 0
    /\ last_call_end = 0
    /\ schema_file = NoFile
    /\ company_website = None
    /\ strategy = "none"
    /\ extracted = NoOutcome
    /\ sleeps = <<>>
    /\ fireworks_api_key = ApiKey
    /\ completed_saves = {}
    /\ summarised = {}
    /\ reply \in (IF variant = "main2" THEN DelimitedReplies ELSE JsonReplies) \cup {NoContent}
    /\ message_content =
           IF reply.kind = "no_content" THEN None
           ELSE IF reply.kind = "delimited" THEN delimited_text(reply)
           ELSE json_reply_text(reply)
    /\ pc = "generated"

\* return self._parse_generated_content(generated_text)
ParseGeneratedContent ==
    /\ pc = "generated"
    /\ result' = [lr |-> _parse_generated_content(message_content)[1],
                  ce |-> _parse_generated_content(message_content)[2]]
    /\ pc' = "parsed"
    /\ UNCHANGED <<variant, cache_vars, batch_vars, hist_vars, side_vars, row, lead_info,
                   company_info, tries>>

NextParse == ParseGeneratedContent

SpecParse == InitParse /\ [][NextParse]_vars

----------------------------------------------------------------------------
(* scrape_url on its own: the schema-caching scraper of src/main.py and    *)
(* the scraper of the class, called for one website after another.         *)
(* (main.py:161-162 break the assignment to css_schema over two lines;     *)
(* it is read as css_schema = JsonCssExtractionStrategy.generate_css_schema *)
(* (...), the call the arguments belong to.)                               *)

\* Bound: the scrape_url calls of a run.
MaxScrapes == 3

\* More contents an extraction can return: lists, scalars, white space
\* around the document.
X_List == <<"[">> \o X_Summary \o <<"]">>
X_ListOfTwo == <<"[">> \o X_TwoLines \o <<",", " ">> \o X_NoSummary \o <<"]">>
X_ListNoSummary == <<"[">> \o X_NoSummary \o <<",", " ">> \o X_Summary \o <<"]">>
X_ListOfStrings == <<"[">> \o json_string(S_Widgets) \o <<"]">>
X_EmptyList == <<"[", "]">>
X_String == json_string(S_Widgets)
X_Number == <<"123">>
X_Null == <<"null">>
X_Padded == <<" ">> \o X_Summary \o <<"\n">>

ExtractionTexts ==
    ExtractedContents \cup
    {X_List, X_ListOfTwo, X_ListNoSummary, X_ListOfStrings, X_EmptyList, X_String,
     X_Number, X_Null, X_Padded}

\* crawler.arun: raises, returns an unsuccessful or empty result (the empty
\* content), or returns extracted content.
CrawlOutcomes ==
    {Returned(c) : c \in ExtractionTexts \cup {<<>>}} \cup {Raised(e) : e \in ApiErrors}

\* The values of the Website cell.
Urls == Websites \cup {NaN, <<"httpx://", "acme.example">>}

\* The schema generate_css_schema returns, and the exception it can raise.
CssSchema == <<"<css schema>">>
SchemaError == <<"schema generation failed">>

\* json.loads failing inside main.py's scrape_url.
ExpectingValue == <<"Expecting value: line 1 column 1 (char 0)">>

\* A faulty version of load_extraction_schema: the stored schema is not found.
load_extraction_schema_never(file) == None

\* load_extraction_schema
load_extraction_schema(file) == IF file.exists THEN file.text ELSE None

\* save_extraction_schema
save_extraction_schema(schema) == schema_file' = File(schema)

\* main.py's test of the url: a non-empty str that starts with 'http'.
is_http(url) ==
    /\ url # <<>>
    /\ url # NaN
    /\ Head(url) \in {"http://", "https://", "httpx://"}

\* main.py, schema being generated: the summary of a decoded object only.
llm_summary(content_data) ==
    IF content_data.kind = "dict" /\ content_data.summary # Absent
    THEN content_data.summary
    ELSE NoSummaryExtracted

\* main.py, schema present: the summary of a decoded object, or of the first
\* element of a list.
css_summary(content_data) ==
    IF content_data.kind \in {"dict", "list"} /\ content_data.summary # Absent
    THEN content_data.summary
    ELSE NoSummaryExtracted

\* What main.py's try block does with a crawl that returned content: the
\* exception it raises (None if it returns), by the schema it loaded.
try_raises(content_data, extraction_schema, generated) ==
    IF extraction_schema = None /\ ~generated THEN SchemaError
    ELSE IF content_data.kind = "JSONDecodeError" THEN ExpectingValue
    ELSE None

\* ... and what it returns.
try_returns(content_data, extraction_schema) ==
    IF extraction_schema = None THEN llm_summary(content_data)
    ELSE css_summary(content_data)

InitExtract ==
    /\ variant \in {"main", "main2"}
    /\ company_cache = <<>>
    /\ cache_file = NoFile
    /\ backup_file = NoFile
    /\ saved_cache = <<>>
    /\ NoRowInProgress
    /\ nrows \in 1..MaxScrapes
    /\ index = 0
    /\ df = [i \in {} |-> EmptyCells]
    /\ output_file = NoWorkbook
    /\ successful_rows = 0
    /\ failed_rows = 0
    /\ excel_writes = <<>>
    /\ now = min_delay
    /\ last_api_call = 0
    /\ last_call_end = 0
    /\ message_content = None
    /\ reply = NoReply
    /\ schema_file \in (IF variant = "main" THEN {NoFile, File(CssSchema)} ELSE {NoFile})
    /\ company_website = None
    /\ strategy = "none"
    /\ extracted = NoOutcome
    /\ sleeps = <<>>
    /\ fireworks_api_key = ApiKey
    /\ completed_saves = {}
    /\ summarised = {}
    /\ pc = "scrape"

\* main.py's scrape_url(url), the whole call: the url is tested, the schema
\* loaded; without one the page is crawled with the LLM strategy, a schema
\* is generated from it and saved, and the content decoded; with one the
\* page is crawled with the CSS strategy and the content decoded.  Every
\* exception ends in the except clause, which returns ''.
ScrapeUrlMain ==
    /\ pc = "scrape"
    /\ variant = "main"
    /\ index < nrows
    /\ index' = index + 1
    /\ \E url \in Urls, outcome \in CrawlOutcomes, generated \in BOOLEAN :
        /\ company_website' = url
        /\ IF ~is_http(url)
           THEN /\ company_info' = <<>>
                /\ strategy' = "none"
                /\ extracted' = NoOutcome
                /\ raised' = None
                /\ UNCHANGED <<schema_file, fetch_calls, gen_calls>>
           ELSE LET extraction_schema == load_extraction_schema(schema_file)
                    content_data == json_loads(outcome.val)
                    has_content == outcome.ok /\ outcome.val # <<>>
                    error == IF ~outcome.ok THEN outcome.val
                             ELSE IF ~has_content THEN None
                             ELSE try_raises(content_data, extraction_schema, generated)
                IN  /\ strategy' = IF extraction_schema = None THEN "llm" ELSE "css"
                    /\ extracted' = outcome
                    /\ fetch_calls' = fetch_calls + 1
                    /\ gen_calls' = gen_calls
                                    + (IF extraction_schema = None THEN 1 ELSE 0)
                                    + (IF extraction_schema = None /\ has_content
                                       THEN 1 ELSE 0)
                    /\ IF extraction_schema = None /\ has_content /\ generated
                       THEN save_extraction_schema(CssSchema)
                       ELSE UNCHANGED schema_file
                    /\ raised' = error
                    /\ company_info' =
                           IF error # None \/ ~has_content THEN <<>>
                           ELSE try_returns(content_data, extraction_schema)
    /\ UNCHANGED <<variant, pc, cache_vars, clock_vars, parse_vars, row, lead_info, result,
                   tries, nrows, df, output_file, successful_rows, failed_rows, attempts,
                   gave_up_on_time, was_cached, excel_writes, sleeps, fireworks_api_key,
                   completed_saves, summarised>>

\* The class's scrape_url(url), the whole call: the url is tested, the page
\* is crawled with the LLM strategy and the content parsed; an exception
\* ends in the except clause, which returns ''.
ScrapeUrlClass ==
    /\ pc = "scrape"
    /\ variant = "main2"
    /\ index < nrows
    /\ index' = index + 1
    /\ \E url \in Urls, outcome \in CrawlOutcomes :
        /\ company_website' = url
        /\ IF ~_is_valid_url(url)
           THEN /\ company_info' = <<>>
                /\ strategy' = "none"
                /\ extracted' = NoOutcome
                /\ raised' = None
                /\ UNCHANGED <<fetch_calls, gen_calls>>
           ELSE /\ strategy' = "llm"
                /\ extracted' = outcome
                /\ fetch_calls' = fetch_calls + 1
                /\ gen_calls' = gen_calls + 1
                /\ raised' = IF outcome.ok THEN None ELSE outcome.val
                /\ company_info' = scrape_result(outcome)
    /\ UNCHANGED <<variant, pc, cache_vars, clock_vars, parse_vars, schema_file, row,
                   lead_info, result, tries, nrows, df, output_file, successful_rows,
                   failed_rows, attempts, gave_up_on_time, was_cached, excel_writes,
                   sleeps, fireworks_api_key, completed_saves, summarised>>

NextExtract == ScrapeUrlMain \/ ScrapeUrlClass

SpecExtract == InitExtract /\ [][NextExtract]_vars

----------------------------------------------------------------------------
(* The run from the start of the process: OutreachGenerator.__init__ with  *)
(* or without the API key in the environment, then a sheet of one row.     *)

\* The exception main3's __init__ raises without the key.
KeyNotFound == <<"FIREWORKS_API_KEY not found in environment variables">>

InitStart ==
    /\ variant \in {"main2", "main3"}
    /\ nrows = 1
    /\ index = 0
    /\ df = [i \in 0..(nrows - 1) |-> EmptyCells]
    /\ output_file = NoWorkbook
    /\ successful_rows = 0
    /\ failed_rows = 0
    /\ excel_writes = <<>>
    /\ \E stored \in StoredCaches :
        /\ cache_file = IF stored = <<>> THEN NoFile ELSE File(saved_text(stored))
        /\ saved_cache = stored
    /\ company_cache = <<>>
    /\ backup_file = NoFile
    /\ NoRowInProgress
    /\ now = min_delay
    /\ last_api_call = 0
    /\ last_call_end = 0
    /\ message_content = None
    /\ reply = NoReply
    /\ schema_file = NoFile
    /\ company_website = None
    /\ strategy = "none"
    /\ extracted = NoOutcome
    /\ sleeps = <<>>
    /\ fireworks_api_key \in {None, ApiKey}
    /\ completed_saves = {}
    /\ summarised = {}
    /\ pc = "start"

\* generator = OutreachGenerator(): the key is read from the environment
\* (main3 raises ValueError without it, main2 does not look at it), and the
\* cache is loaded; then process_excel_file begins.
Initialize ==
    /\ pc = "start"
    /\ IF variant = "main3" /\ fireworks_api_key = None
       THEN /\ raised' = KeyNotFound
            /\ pc' = "raised"
            /\ UNCHANGED company_cache
       ELSE /\ company_cache' = load_company_cache(cache_file)
            /\ pc' = "loop"
            /\ UNCHANGED raised
    /\ UNCHANGED <<variant, side_vars, cache_file, backup_file, saved_cache, batch_vars,
                   row_vars, attempts, gave_up_on_time, fetch_calls, gen_calls,
                   was_cached, excel_writes>>

NextStart == Initialize \/ Next

SpecStart == InitStart /\ [][NextStart]_vars

----------------------------------------------------------------------------
(* save_company_cache step by step, with the process killed in the middle  *)
(* of a save and started again: the backup is copied, company_cache.txt is *)
(* opened for writing (which empties it), the lines are written one by     *)
(* one, the file is closed.                                                *)

\* The companies and summaries of this specification: texts of one line.
CrashNames == {<<"Acme Corp">>, <<"Initech">>}
CrashSummaries == {S_Widgets}

\* The items of the cache that the save in progress has written.
lines_written(n) == saved_text(SubSeq(company_cache, 1, n))

InitCrash ==
    /\ variant = "main2"
    /\ company_cache = <<>>
    /\ cache_file = NoFile
    /\ backup_file = NoFile
    /\ saved_cache = <<>>
    /\ Idle
    /\ now = min_delay
    /\ last_api_call = 0
    /\ last_call_end = 0
    /\ message_content = None
    /\ reply = NoReply
    /\ schema_file = NoFile
    /\ company_website = None
    /\ strategy = "none"
    /\ extracted = NoOutcome
    /\ sleeps = <<>>
    /\ fireworks_api_key = ApiKey
    /\ completed_saves = {}
    /\ summarised = {}
    /\ pc = "running"

crash_frame ==
    <<variant, row_vars, batch_vars, hist_vars, clock_vars, parse_vars, extract_vars,
      sleeps, fireworks_api_key, summarised>>

\* self.company_cache[company_name] = company_info, for a new company.
PutSummary ==
    /\ pc = "running"
    /\ \E k \in CrashNames, v \in CrashSummaries :
        /\ ~cache_hit(k)
        /\ company_cache' = dict_set(company_cache, k, v)
    /\ UNCHANGED <<cache_file, backup_file, saved_cache, completed_saves, pc, crash_frame>>

\* The backup of the existing file: dst.write(src.read()).
CopyToBackup ==
    /\ pc = "running"
    /\ backup_file' = IF cache_file.exists THEN cache_file ELSE backup_file
    /\ pc' = "backed_up"
    /\ UNCHANGED <<company_cache, cache_file, saved_cache, completed_saves, crash_frame>>

\* open(cache_file, 'w'): the file is there and empty.
OpenForWriting ==
    /\ pc = "backed_up"
    /\ cache_file' = File(<<>>)
    /\ pc' = "writing"
    /\ UNCHANGED <<company_cache, backup_file, saved_cache, completed_saves, crash_frame>>

\* f.write(...) of the next item.
WriteLine ==
    /\ pc = "writing"
    /\ \E n \in 0..(Len(company_cache) - 1) :
        /\ cache_file.text = lines_written(n)
        /\ cache_file' = File(lines_written(n + 1))
    /\ UNCHANGED <<company_cache, backup_file, saved_cache, completed_saves, pc, crash_frame>>

\* The with block ends after the last item: the save has run to its end.
CloseFile ==
    /\ pc = "writing"
    /\ cache_file.text = lines_written(Len(company_cache))
    /\ completed_saves' = completed_saves \cup {cache_file.text}
    /\ saved_cache' = company_cache
    /\ pc' = "running"
    /\ UNCHANGED <<company_cache, cache_file, backup_file, crash_frame>>

\* The process is killed in the middle of a save: its memory is lost, the
\* files stay as they are.
Crash ==
    /\ pc \in {"backed_up", "writing"}
    /\ company_cache' = <<>>
    /\ pc' = "crashed"
    /\ UNCHANGED <<cache_file, backup_file, saved_cache, completed_saves, crash_frame>>

\* The next process: __init__ loads company_cache.txt.
Restart ==
    /\ pc = "crashed"
    /\ company_cache' = load_company_cache(cache_file)
    /\ pc' = "running"
    /\ UNCHANGED <<cache_file, backup_file, saved_cache, completed_saves, crash_frame>>

NextCrash ==
    \/ PutSummary
    \/ CopyToBackup
    \/ OpenForWriting
    \/ WriteLine
    \/ CloseFile
    \/ Crash
    \/ Restart

SpecCrash == InitCrash /\ [][NextCrash]_vars

----------------------------------------------------------------------------
(* The claims.                                                             *)

\* C1: save_company_cache followed by load_company_cache gives the saved
\* mapping with every '|||' removed from keys and values and nothing else
\* changed: as many entries as were saved, each key with its own summary.
C1_RoundTripExact ==
    pc = "loaded" =>
        /\ items(company_cache) =
               {<<replace_sep(e[1]), replace_sep(e[2])>> : e \in items(saved_cache)}
        /\ Len(company_cache) = Len(saved_cache)

\* C2: a row whose Company Name was a key of the cache when the row began
\* makes no page fetch, and its company information is the cached summary.
C2_CacheHitNoFetch ==
    was_cached =>
        /\ fetch_calls = 0
        /\ company_info # None => company_info = dict_get(company_cache, row.company)

C2_Witness ==
    /\ pc = "check_content"
    /\ was_cached
    /\ _is_valid_url(row.website)
    /\ row.company = <<"Acme Corp">>
    /\ company_info = S_Widgets

\* C3, with one sentinel for both entry points: when process_row returns with
\* lead and company information both empty after stripping, no generation
\* call was made and both fields are 'No content available'.
C3_NoContentAvailable ==
    (/\ pc = "update_df"
     /\ raised = None
     /\ strip(lead_info) = <<>>
     /\ strip(company_info) = <<>>)
    => /\ gen_calls = 0
       /\ result = [lr |-> NoContentAvailable, ce |-> NoContentAvailable]

\* C3, with each entry point's own sentinel: when process_row returns with
\* lead and company information both empty after stripping, no generation
\* call was made and both fields are 'No content available' in main2,
\* 'No company info available' in main3.
C3_NoContentSentinel ==
    (/\ pc = "update_df"
     /\ raised = None
     /\ strip(lead_info) = <<>>
     /\ strip(company_info) = <<>>)
    => /\ gen_calls = 0
       /\ result.lr = IF variant = "main2" THEN NoContentAvailable
                      ELSE NoCompanyInfoAvailable
       /\ result.ce = result.lr

C3_Witness ==
    /\ pc = "update_df"
    /\ variant = "main2"
    /\ raised = None
    /\ lead_info = <<>>
    /\ company_info = <<>>
    /\ fetch_calls = 1
    /\ result.lr = NoContentAvailable

\* C4: an exception caught by process_row becomes 'Error: <message>' in both
\* fields, the row is marked Failed, and the run ends only after every row
\* has been processed.
C4_RowFailureIsolated ==
    /\ (pc = "update_df" /\ raised # None)
           => result = [lr |-> Error(raised), ce |-> Error(raised)]
    /\ (pc = "periodic" /\ raised # None)
           => /\ df[index].lr = Error(raised)
              /\ df[index].ce = Error(raised)
              /\ df[index].status = "Failed"
    /\ pc \in {"done", "raised"}
           => /\ index = nrows
              /\ \A i \in 0..(nrows - 1) : df[i].status # "" /\ df[i].at

C4_Witness ==
    /\ pc = "done"
    /\ nrows = 2
    /\ df[0].status = "Failed"
    /\ df[0].lr = Error(FloatHasNoStrip)
    /\ df[1].status = "Success"

\* The calls of df.to_excel a run has made when n rows are behind it.
ExpectedWrites(n, finished) ==
    [k \in 1..(n \div SaveEvery) |-> k * SaveEvery] \o (IF finished THEN <<0>> ELSE <<>>)

\* C5: the workbook is written after rows 5, 10, ... and once after the
\* loop, whatever the outcomes of the rows.
C5_WriteSchedule ==
    /\ pc = "loop" => excel_writes = ExpectedWrites(index, FALSE)
    /\ pc = "done" => excel_writes = ExpectedWrites(nrows, TRUE)

\* The rows already processed whose cells are not in the workbook on disk.
Unsaved ==
    {i \in 0..(index - 1) : ~output_file.exists \/ output_file.rows[i] # df[i]}

\* C6: when a row is about to start, at most 4 processed rows are missing
\* from the workbook on disk.
C6_AtMostFourUnsaved ==
    (pc = "loop" /\ index < nrows) => Cardinality(Unsaved) <= SaveEvery - 1

\* C7: between rows, the line of every entry of the in-memory cache is in
\* the cache file.
C7_CacheEntriesOnDisk ==
    pc = "loop" =>
        \A e \in items(company_cache) :
            cache_file.exists /\ contains(cache_file.text, cache_line(e))

\* The retried call of get_person_info or generate_content has ended.
RetriedCallEnded ==
    \/ attempts.op = "get_person_info" /\ pc \in {"company", "update_df"}
    \/ attempts.op = "generate_content" /\ pc = "update_df"

\* C8: a retried call whose third attempt returns, the first two having
\* raised, returns the third attempt's value; two raises alone do not end
\* the call.
C8_ThirdAttemptReturns ==
    RetriedCallEnded =>
        /\ (attempts.n = 3 /\ attempts.last.ok) =>
               /\ raised = None
               /\ attempts.op = "get_person_info" => lead_info = attempts.last.val
               /\ attempts.op = "generate_content" =>
                      /\ gen_calls = 3
                      /\ result.lr = _parse_generated_content(attempts.last.val)[1]
                      /\ result.ce = _parse_generated_content(attempts.last.val)[2]
        /\ (~attempts.last.ok /\ ~gave_up_on_time) => attempts.n = 3

C8_Witness ==
    /\ pc = "update_df"
    /\ attempts = [op |-> "generate_content", n |-> 3, last |-> Returned(G_Good)]
    /\ gen_calls = 3
    /\ result = [lr |-> <<"Hi there">>, ce |-> <<"Subject: Hello", "\n", "Body text">>]

\* C9: no retried call makes more than 3 attempts; when the third raises,
\* its exception is the one process_row catches, and the row is Failed with
\* that message.
C9_AtMostThreeAttempts ==
    /\ attempts.n <= 3
    /\ gen_calls <= 3
    /\ (RetriedCallEnded /\ attempts.n = 3 /\ ~attempts.last.ok)
           => /\ pc = "update_df"
              /\ raised = attempts.last.val
              /\ result = [lr |-> Error(attempts.last.val), ce |-> Error(attempts.last.val)]
    /\ (pc = "periodic" /\ raised \in ApiErrors)
           => df[index].status = "Failed" /\ df[index].lr = Error(raised)

C9_Witness ==
    /\ pc = "update_df"
    /\ attempts = [op |-> "generate_content", n |-> 3,
                   last |-> Raised(<<"429 Too Many Requests">>)]
    /\ result.lr = Error(<<"429 Too Many Requests">>)

\* C10: when a fetch for a valid URL raises, scrape_url attempts it again:
\* its final result comes after a fetch that returned or after 3 attempts.
C10_ScrapeRetried ==
    (/\ pc = "check_content"
     /\ attempts.op = "scrape_url"
     /\ attempts.n >= 1
     /\ ~attempts.last.ok)
    => attempts.n = 3

\* C11: when a rate-limited API call is issued, at least min_delay has passed
\* since the previous one returned or raised.
C11_MinDelaySinceCompletion ==
    pc = "calling" => now - last_call_end >= min_delay

\* A section of a delimited reply that has its marker pair.
Pairs == {"pair", "two_pairs"}

\* C12: the delimiter parser raises nothing; a field gets its sentinel exactly
\* when its marker pair is missing, and the other field is still extracted.
C12_SentinelForMissingFields ==
    /\ (pc = "parsed" /\ reply.kind = "delimited") =>
        /\ raised = None
        /\ (reply.link \in Pairs) <=> (result.lr # FailedLinkedIn)
        /\ (reply.mail \in Pairs) <=> (result.ce # FailedEmail)
        /\ reply.mail \in Pairs => result.ce = reply.email
        /\ (reply.link \in Pairs /\ Len(reply.request) <= 300) => result.lr = reply.request
    /\ (pc = "parsed" /\ reply.kind = "no_content" /\ variant = "main2") =>
        /\ raised = None
        /\ result = [lr |-> FailedLinkedIn, ce |-> FailedEmail]

C12_Witness ==
    /\ pc = "parsed"
    /\ reply.kind = "delimited"
    /\ reply.link = "no_end"
    /\ reply.mail = "pair"
    /\ result = [lr |-> FailedLinkedIn, ce |-> <<"Subject: Hello", "\n", "Body text">>]

\* C13: with both marker pairs present, the request (when within the limit)
\* is the trimmed text between LINKEDIN_REQUEST_START and the first
\* LINKEDIN_REQUEST_END after it, the email the trimmed text between
\* EMAIL_START and the first EMAIL_END after it, subject and body together.
C13_TextBetweenMarkers ==
    (/\ pc = "parsed"
     /\ reply.kind = "delimited"
     /\ reply.link \in Pairs
     /\ reply.mail \in Pairs)
    => /\ Len(reply.request) <= 300 => result.lr = reply.request
       /\ result.ce = reply.email
       /\ message_content = G_Good =>
              result = [lr |-> <<"Hi there">>,
                        ce |-> <<"Subject: Hello", "\n", "Body text">>]

C13_Witness ==
    /\ pc = "parsed"
    /\ message_content = G_Good
    /\ result = [lr |-> <<"Hi there">>, ce |-> <<"Subject: Hello", "\n", "Body text">>]

\* C14: a request of more than 300 characters comes out 300 characters long,
\* its first 297 characters and three dots; a shorter one comes out as it is.
C14_TruncatedTo300 ==
    (/\ pc = "parsed"
     /\ reply.kind = "delimited"
     /\ reply.link \in Pairs)
    => IF Len(reply.request) > 300
       THEN /\ Len(result.lr) = 300
            /\ SubSeq(result.lr, 1, 297) = SubSeq(reply.request, 1, 297)
            /\ SubSeq(result.lr, 298, 300) = <<".", ".", ".">>
       ELSE result.lr = reply.request

C14_Witness ==
    /\ pc = "parsed"
    /\ reply.kind = "delimited"
    /\ reply.link = "pair"
    /\ Len(reply.request) = 301
    /\ Len(result.lr) = 300
    /\ result.lr[300] = "."

\* C15: in both parsing modes, no request of more than 300 characters is
\* returned by the parser.
C15_NeverOver300 ==
    (pc = "parsed" /\ result.lr \notin {NotStr, Null}) => len(result.lr) <= 300

\* The fields of the email a JSON reply was made of.
SubjectGiven == reply.subject \notin {Absent, <<>>, Null}

BodyGiven == IF reply.body = Absent THEN <<>> ELSE reply.body

\* C16: the document is taken from the block tagged json if there is one,
\* else from the first fenced block, else from the whole text; the email is
\* 'Subject: <subject>', a blank line and the body when the subject is not
\* empty, else the body alone.
C16_FenceOrderAndEmail ==
    (/\ pc = "parsed"
     /\ reply.kind = "json"
     /\ reply.wrap # "unclosed")
    => /\ result.lr = (IF reply.request = Absent THEN FailedLinkedIn ELSE reply.request)
       /\ result.ce = (IF SubjectGiven
                       THEN <<"Subject: ">> \o reply.subject \o <<"\n", "\n">> \o BodyGiven
                       ELSE BodyGiven)

C16_Witness ==
    /\ pc = "parsed"
    /\ reply.kind = "json"
    /\ reply.wrap = "fence_then_json"
    /\ reply.subject = <<"Hello">>
    /\ result = [lr |-> <<"Hi there">>,
                 ce |-> <<"Subject: ", "Hello", "\n", "\n", "Body text">>]

\* C17: in JSON mode a reply that is no JSON object (no JSON at all, or a
\* list, a number, a string, null) gives a 'Failed to parse' sentinel in both
\* fields, and nothing is raised.
C17_SentinelsForNoObject ==
    (/\ pc = "parsed"
     /\ variant = "main3"
     /\ \/ reply.kind \in {"other", "no_content"}
        \/ reply.kind = "json" /\ reply.wrap = "unclosed")
    => /\ raised = None
       /\ result \in {[lr |-> FailedJson, ce |-> FailedJson],
                      [lr |-> FailedLinkedIn, ce |-> FailedEmail]}

C17_Witness ==
    /\ pc = "parsed"
    /\ variant = "main3"
    /\ reply.kind = "other"
    /\ reply.doc = <<"[">> \o J_Good \o <<"]">>
    /\ result = [lr |-> FailedLinkedIn, ce |-> FailedEmail]

\* The sentinel strings that stand for a failed or missing extraction.
ExtractionSentinels == {NoSummaryExtracted, FailedToParseExtraction}

\* C18: the company cache holds real summaries only: no value of it is
\* empty after trimming, and none is a sentinel of a failed or missing
\* extraction.
C18_CacheHoldsSummariesOnly ==
    \A i \in 1..Len(company_cache) :
        /\ strip(company_cache[i][2]) # <<>>
        /\ company_cache[i][2] \notin ExtractionSentinels

\* The summary the contents of an extraction hold, by the rule of C19.
C19_Summary ==
    [c \in ExtractionTexts |->
        IF c \in {X_Summary, X_List, X_Padded} THEN S_Widgets
        ELSE IF c \in {X_TwoLines, X_ListOfTwo} THEN S_TwoLines
        ELSE NoSummaryExtracted]

\* C19: in every extraction strategy, content that is a JSON object with a
\* summary, or a list whose first element is one, gives that summary, and
\* every other content gives 'No summary extracted'.
C19_SummaryOrSentinel ==
    (/\ pc = "scrape"
     /\ strategy # "none"
     /\ extracted.ok
     /\ extracted.val # <<>>
     /\ raised # SchemaError)
    => company_info = C19_Summary[extracted.val]

\* C20: an exception of the fetch or the extraction is caught inside
\* scrape_url and becomes the empty text: it is not retried, it does not
\* reach process_row, and the row goes on with empty company information
\* and is not written as an error.
C20_ScrapeFailureCaught ==
    (/\ attempts.op = "scrape_url"
     /\ attempts.n >= 1
     /\ ~attempts.last.ok)
    => /\ pc \in {"check_content", "update_df"}
       /\ company_info = <<>>
       /\ raised = None
       /\ pc = "update_df" => ~startswith_error(result.lr)

\* The fetch of a row's website has raised, and the row is at the check of
\* what was gathered, with lead information and no company information.
C20_Witness ==
    /\ pc = "check_content"
    /\ attempts = [op |-> "scrape_url", n |-> 1, last |-> Raised(<<"Read timed out.">>)]
    /\ company_info = <<>>
    /\ lead_info = PersonInfo
    /\ raised = None

\* Whether a url is a text that starts with 'http://' or 'https://'.
HttpUrl(url) ==
    /\ url # <<>>
    /\ url # NaN
    /\ Head(url) \in {"http://", "https://"}

\* C21: for a url that is missing, not a text, or does not start with
\* 'http://' or 'https://', scrape_url returns the empty text and the page
\* is not fetched, in every variant.
C21_InvalidUrlNoFetch ==
    (/\ pc = "scrape"
     /\ index >= 1
     /\ ~HttpUrl(company_website))
    => /\ company_info = <<>>
       /\ strategy = "none"
       /\ extracted = NoOutcome

NameAbsent(r) == r.first \in {<<>>, NaN} \/ r.last \in {<<>>, NaN}

\* C23: a row whose first or last name is absent gets no lead research (no
\* search is made, the lead information is empty), and the absence is no
\* error of the row: process_row goes on to the company.
C23_AbsentNameSkipsSearch ==
    (/\ row # NoRow
     /\ pc # "process_row"
     /\ NameAbsent(row))
    => /\ lead_info = <<>>
       /\ attempts.op # "get_person_info"
       /\ raised # FloatHasNoStrip

\* C24: the delay between rows follows every row, whatever its outcome:
\* when the loop is at row i, asyncio.sleep(1) has run after each of the
\* rows before it.
C24_DelayAfterEveryRow ==
    pc = "loop" => sleeps = [i \in 1..index |-> i - 1]

\* process_row is at work on the row at index.
Processing ==
    pc \in {"process_row", "get_person_info", "company", "scrape_url", "check_content",
            "generate_content"}

\* C25: rows are processed in input order, one at a time.  While the row at
\* index is at work, the slots of all rows before it are written and those
\* of it and of all rows after it are not; when a row begins, every cache
\* write before it has been followed by its save; and a result is written
\* to the slot of the row it was computed from.
C25_RowsInOrder ==
    /\ \A j \in 0..(nrows - 1) :
        /\ j < index => df[j].at
        /\ j > index => df[j] = EmptyCells
        /\ (j = index /\ Processing) => df[j] = EmptyCells
    /\ pc = "process_row" => saved_cache = company_cache
    /\ pc = "periodic" => (df[index].lr = result.lr /\ df[index].ce = result.ce)

\* The second row begins after the first row's summary was cached and saved
\* and its slot written.
C25_Witness ==
    /\ pc = "process_row"
    /\ index = 1
    /\ df[0].status = "Success"
    /\ dict_has(company_cache, <<"Initech">>)
    /\ saved_cache = company_cache
    /\ df[1] = EmptyCells

\* C26: load_company_cache takes a line as an entry only if the separator
\* splits it into two parts that are both non-empty after trimming: no
\* loaded entry has an empty key or an empty summary.
C26_LoadedPartsNonEmpty ==
    pc = "loaded" =>
        \A e \in items(company_cache) : e[1] # <<>> /\ e[2] # <<>>

\* C27: without the API key in the environment the run ends at start-up:
\* no row is processed, no external call is made and no workbook is written.
C27_NoKeyNoRun ==
    fireworks_api_key = None
    => /\ pc \in {"start", "raised"}
       /\ index = 0
       /\ row = NoRow
       /\ attempts = NoCall
       /\ fetch_calls = 0
       /\ gen_calls = 0
       /\ output_file = NoWorkbook
       /\ excel_writes = <<>>

\* C28: a text that cannot be parsed is not retried.  While generate_content
\* is being attempted again, the API call before raised; per row the API is
\* called once for every attempt, at most 3 times.
C28_ParseFailureNotRetried ==
    /\ (pc = "generate_content" /\ attempts.n >= 1)
       => (~attempts.last.ok /\ gen_calls = tries)
    /\ attempts.op = "generate_content"
       => (gen_calls = attempts.n /\ gen_calls <= max_tries)

\* The API returned a text without markers at the first attempt: the row
\* has its sentinels after one call.
C28_Witness ==
    /\ pc = "update_df"
    /\ attempts = [op |-> "generate_content", n |-> 1, last |-> Returned(G_NoMarkers)]
    /\ gen_calls = 1
    /\ result = [lr |-> FailedLinkedIn, ce |-> FailedEmail]

\* C29: no step of a row changes the output cells of another row, or
\* removes or changes an entry of the cache; the cache grows only by one
\* entry at a time, under the company name of the row at work.
C29_OtherRowsAndCacheKept ==
    [][/\ \A j \in DOMAIN df : j # index => df'[j] = df[j]
       /\ Len(company_cache') >= Len(company_cache)
       /\ \A i \in 1..Len(company_cache) : company_cache'[i] = company_cache[i]
       /\ Len(company_cache') > Len(company_cache)
          => /\ Len(company_cache') = Len(company_cache) + 1
             /\ company_cache'[Len(company_cache')][1] = row.company]_vars

\* The second row has added its company to a cache that held an entry, after
\* a first row that failed.
C29_Witness ==
    /\ pc = "check_content"
    /\ index = 1
    /\ df[0].status = "Failed"
    /\ company_cache = <<<<<<"Acme Corp">>, S_Widgets>>, <<<<"Initech">>, S_TwoLines>>>>
    /\ attempts.op = "scrape_url"

\* A text of one line with no '|' in it, white space at its ends or not.
PlainText(s) ==
    /\ strip(s) # <<>>
    /\ \A i \in 1..Len(strip(s)) : strip(s)[i] \notin {"|", "\n"}

\* C30: a summary cached and saved in one run is a cache hit in the next
\* run for a row with the same Company Name: every key that was saved (here:
\* of one line and without '|', as its summary) is found by the lookup
\* after the file is loaded.
C30_SavedKeyHitsAfterLoad ==
    pc = "loaded" =>
        \A e \in items(saved_cache) :
            (PlainText(e[1]) /\ PlainText(e[2])) => cache_hit(e[1])

\* C31: at the end of a run every row has been counted once: the successful
\* and the failed rows together are the rows of the sheet.
C31_EveryRowCountedOnce ==
    pc = "done" => successful_rows + failed_rows = nrows

\* C32: a row is given the status Failed only if an exception was raised
\* while it was processed; generated text, whatever it is, makes the row a
\* Success.
C32_FailedOnlyByException ==
    (pc = "periodic" /\ df[index].status = "Failed") => raised # None

\* C33: once a save has run to its end, at every instant company_cache.txt
\* or company_cache.backup.txt holds the complete text that some save which
\* ran to its end has written.
C33_OneFileComplete ==
    completed_saves # {}
    => \/ cache_file.exists /\ cache_file.text \in completed_saves
       \/ backup_file.exists /\ backup_file.text \in completed_saves

\* C34: within one run, once a scrape for a Company Name has produced a
\* summary that was written to the cache, no later row with that Company
\* Name calls crawler.arun: a step that makes a fetch is a step of a row
\* whose Company Name has had no summary cached in this run.  (The names are
\* texts: a missing cell names no company.)
C34_NoFetchAfterCachedSummary ==
    [][(fetch_calls' > fetch_calls /\ row.company # NaN) => row.company \notin summarised]_vars

\* The second row names the company the first row's scrape cached, has a
\* valid website, and gets its summary without a fetch.
C34_Witness ==
    /\ pc = "check_content"
    /\ index = 1
    /\ row.company = <<"Initech">>
    /\ row.company \in summarised
    /\ _is_valid_url(row.website)
    /\ fetch_calls = 0
    /\ company_info # <<>>

\* get_person_info's two not-found outcomes.
NotFoundSentinels == {NoLinkedInProfile, NoInformationFound}

\* C35: in main2, when the lead search yields a not-found outcome and no
\* company information is obtained, process_row makes no call of the
\* generation API for the row.
C35_NotFoundIsNoContent ==
    (/\ variant = "main2"
     /\ lead_info \in NotFoundSentinels
     /\ company_info # None
     /\ strip(company_info) = <<>>)
    => gen_calls = 0

\* The run under its scheduling: one thread of control, whose every external
\* call returns or raises, so a step that can be taken is taken.
SpecLive == Init /\ [][Next]_vars /\ WF_vars(Next)

\* The statuses a processed row can have ("Fatal Error" stands for
\* f"Fatal Error: {str(e)}").
RowStatuses == {"Success", "Failed", "Fatal Error"}

\* Every row has a Processing Status and a Processed At.
RowsAccountedFor ==
    \A i \in 0..(nrows - 1) : df[i].status \in RowStatuses /\ df[i].at

\* The external calls of the row in progress are at most max_tries of each
\* kind.
CallsBounded ==
    /\ attempts.n <= max_tries
    /\ fetch_calls <= max_tries
    /\ gen_calls <= max_tries

\* The final df.to_excel was called, after the loop.
FinalWriteMade == excel_writes # <<>> /\ excel_writes[Len(excel_writes)] = 0

\* C36, as stated: the run ends with every row accounted for, the final
\* write of the workbook and then the final save of the cache.
C36_EndsWithBothSaves ==
    /\ []CallsBounded
    /\ <>(/\ pc = "done"
           /\ RowsAccountedFor
           /\ FinalWriteMade
           /\ output_file.exists
           /\ saved_cache = company_cache)

\* C36, amended: every row makes a bounded number of external calls and the
\* run ends with every row accounted for and the final df.to_excel called;
\* when that call returns, the workbook holds the rows and the final save of
\* the cache follows, and when it raises, the run ends with its exception
\* and without the final save of the cache.
C36_RunTerminates ==
    /\ []CallsBounded
    /\ <>(/\ pc \in {"done", "raised"}
           /\ RowsAccountedFor
           /\ FinalWriteMade
           /\ pc = "done" => (output_file.exists /\ output_file.rows = df
                               /\ saved_cache = company_cache))

\* Two rows, one of them failed after three attempts of a call, and the
\* final df.to_excel raised.
C36_Witness ==
    /\ pc = "raised"
    /\ nrows = MaxRows
    /\ RowsAccountedFor
    /\ FinalWriteMade
    /\ failed_rows >= 1
    /\ ~output_file.exists

====
